---- MODULE Spec2Model ----
(***************************************************************************)
(* Voxel collision search and carving of the volumetric drilling plugin    *)
(* (volumetric_drilling.cpp).                                              *)
(*                                                                         *)
(* Lengths are integers in units of 0.0001 AMBF units, so the radius       *)
(* 0.043 is 430.  Colours are abstracted to the three classes the code     *)
(* distinguishes: m_zeroColor ("Zero"), m_boneColor ("Bone") and any       *)
(* other colour ("Crit").                                                  *)
(***************************************************************************)
EXTENDS Integers, Sequences, FiniteSets

\* ------------------------------------------------------------------ bounds
TexWidth == 3
TexHeight == 2
TexDepth == 2
VoxelPitch == 800
MaxTicks == 2
NumCursors == 2
MaxPos == 1
MaxCounter == 12
MaxVolumeMove == 1
MaxManipTicks == 3

\* ------------------------------------------------------- program constants
InitRadius == 430
Radius2mm == 403
Radius4mm == 805
Radius6mm == 1208
MaxToolCursors == 8
m_dX == 2600
PosTolerance == 100
MaxZeroTicks == 10
StartForce == 10

\* ------------------------------------------------------------------- state
VARIABLES
    voxelColor,                 \* colour class of every voxel of the texture image
    m_burrRadius,               \* m_burrMesh->getRadius()
    proxyPos,                   \* getGlobalPosProxy() of the tip cursor
    firstContact,               \* voxel index of getCollisionEvent(0)
    search,                     \* state of the collision search
    pcPhysics,                  \* position of the physics task
    allCollidingVoxelIndex,     \* the container drained by physicsUpdate
    critialRegionFlag,
    volIndex,                   \* the voxel popped by the current drain iteration
    m_targetToolCursorIdx,
    m_targetToolCursor,         \* the place in m_toolCursorList of the cursor it points to
    warningShown,               \* m_warningPopup / m_warningText shown
    m_volumeUpdate,
    m_flagMarkVolumeForUpdate,
    m_mutexVoxel,               \* "free", "physics" or "graphics"
    pcGraphics,                 \* position of the graphics task
    min, max,                   \* the locals of graphicsUpdate
    tick,                       \* number of physics ticks completed
    carving,                    \* history: the current tick took the carving branch
    colorAtTick,                \* history: voxelColor when the tick began
    warningAtTick,              \* history: warningShown when the tick began
    published,                  \* history: voxelsRemoved events per voxel index
    unrefreshed,                \* history: voxels that went to zero and are in no marked region yet
    removedSinceClear,          \* history: voxels removed since the last setEmpty
    clearedOnce,                \* history: setEmpty has run
    nt,                         \* option --nt: number of tool cursors requested
    optInfo,                    \* option --info given
    drillFound,                 \* the world has a rigid body "mastoidectomy_drill"
    volumeFound,                \* the world has a volume "mastoidectomy_volume"
    initResult,                 \* 0 before init, then its return value
    numToolCursors,             \* m_toolCursorList.size()
    imageSize,                  \* width, height and image count of the volume's texture
    textureWarning,             \* init has printed "Warning: Texture size is 0"
    numCorners,                 \* number of entries of the corner table
    cornersLoaded,              \* the corner table has been built
    cursorsStarted,             \* toolCursorInit has run
    originalColor,              \* the texture image as loaded
    T_d,                        \* the commanded pose
    drillTransform,             \* m_drillRigidBody local transform
    deviceAvailable,            \* the values isDeviceAvailable() returned in this tick
    proxyErr,                   \* proxy/goal distance of every tool cursor in this tick
    m_maxError,
    tipRadius,                  \* radius of m_toolCursorList[0]
    m_drillSizeIdx,
    m_currDrillSize,
    m_suddenJump,               \* the toggle of key X
    heldTransform,              \* history: drillTransform when the tick began
    stagesDone,                 \* history: the stages of this tick already run
    m_flagStart,
    m_counter,
    m_controlMode,
    force,                      \* length of the output force of this tick
    button,                     \* getUserSwitch(1) of this tick
    deviceLocalForce,           \* length of the force handed to applyToDevice
    m_selectedObject,           \* the object held: "none", "voxelObj" or "other"
    m_tool_T_object,            \* place of the held object seen from the tool
    volumeTransform,            \* place of m_volumeObject along the X axis
    modeAtTick,                 \* history: m_controlMode when the tick began
    volumeAtTick,               \* history: volumeTransform when the tick began
    startedAtTick,              \* history: m_flagStart when the tick began
    zeroRun                     \* history: consecutive zero-force ticks up to now

inputVars == <<m_burrRadius, proxyPos, firstContact>>
drainVars == <<allCollidingVoxelIndex, critialRegionFlag, volIndex>>
sharedVars == <<m_volumeUpdate, m_flagMarkVolumeForUpdate, m_mutexVoxel>>
graphicsVars == <<pcGraphics, min, max>>
tickVars == <<tick, carving, colorAtTick, warningAtTick>>
historyVars == <<published, unrefreshed, removedSinceClear, clearedOnce>>
initVars == <<nt, optInfo, drillFound, volumeFound, initResult, numToolCursors,
              imageSize, textureWarning, numCorners, cornersLoaded, cursorsStarted,
              originalColor>>
poseVars == <<T_d, drillTransform, deviceAvailable, heldTransform, m_suddenJump>>
arbiterVars == <<proxyErr, m_maxError, stagesDone>>
sizeVars == <<tipRadius, m_drillSizeIdx, m_currDrillSize>>
latchVars == <<m_flagStart, m_counter, startedAtTick, zeroRun>>
modeVars == <<m_controlMode, modeAtTick, m_selectedObject, m_tool_T_object,
              volumeTransform, volumeAtTick>>
forceVars == <<force, button, deviceLocalForce>>
controlVars == <<initVars, poseVars, arbiterVars, sizeVars, latchVars, modeVars, forceVars>>
vars == <<voxelColor, inputVars, search, pcPhysics, drainVars, m_targetToolCursorIdx, m_targetToolCursor,
          warningShown, sharedVars, graphicsVars, tickVars, historyVars, controlVars>>

\* ------------------------------------------------------------------ helpers
Min(a, b) == IF a < b THEN a ELSE b
Max(a, b) == IF a > b THEN a ELSE b
Abs(a) == IF a < 0 THEN 0 - a ELSE a
Add3(a, b) == <<a[1] + b[1], a[2] + b[2], a[3] + b[3]>>
Sub3(a, b) == <<a[1] - b[1], a[2] - b[2], a[3] - b[3]>>
LengthSq(a) == a[1] * a[1] + a[2] * a[2] + a[3] * a[3]
Zero3 == <<0, 0, 0>>

\* ------------------------------------------------------------- voxel grid
\* texSize[0..2] (1-based here): width, height and image count of the texture.
texSize == <<TexWidth, TexHeight, TexDepth>>

Voxels == (0 .. TexWidth - 1) \X (0 .. TexHeight - 1) \X (0 .. TexDepth - 1)

Colors == {"Zero", "Bone", "Crit"}
m_zeroColor == "Zero"
m_boneColor == "Bone"

\* Extents and texture coordinates of the loaded volume, and its initial pose
\* (rotation is the identity).
m_minCorner == Zero3
m_maxCorner == <<VoxelPitch * TexWidth, VoxelPitch * TexHeight, VoxelPitch * TexDepth>>
m_minTextureCoord == Zero3
m_maxTextureCoord == <<1, 1, 1>>
voxelObjPos == Zero3

\* Size of a texel along axis a.  A division by a zero texture size gives
\* +infinity in the double arithmetic of the code, and cMin then returns s.
voxelSizeAlong(a) ==
    LET s == Abs(m_maxCorner[a] - m_minCorner[a])
        t == (m_maxTextureCoord[a] - m_minTextureCoord[a]) * texSize[a]
    IN  IF m_maxTextureCoord[a] = m_minTextureCoord[a] THEN s
        ELSE IF t = 0 THEN s
        ELSE Min(s, s \div t)

voxelSize == <<voxelSizeAlong(1), voxelSizeAlong(2), voxelSizeAlong(3)>>

v000GlobalPos == Add3(voxelObjPos, m_minCorner)

\* Slot the loading loop writes corner (x,y,z) of voxel v to.
CornerWriteSlot(v, x, y, z) ==
    v[1] * (TexHeight * TexDepth * 8) + v[2] * (TexDepth * 8) + v[3] * 8
        + (4 * x + 2 * y + z)

\* Slot of corner cor (= 4x+2y+z) of voxel v read by the collision test.
CornerSlotHalfStride(v, cor) ==
    v[1] * (texSize[2] * texSize[3] * 8) + v[2] * (texSize[3] * 8) + v[3] * 4 + cor
CornerSlot(v, cor) ==
    v[1] * (texSize[2] * texSize[3] * 8) + v[2] * (texSize[3] * 8) + v[3] * 8 + cor

\* World position of corner (x,y,z) of voxel v as computed by the loading loop.
CornerGlobal(v, x, y, z) ==
    Add3(<<v[1] * voxelSize[1] + voxelSize[1] * x,
           v[2] * voxelSize[2] + voxelSize[2] * y,
           v[3] * voxelSize[3] + voxelSize[3] * z>>, v000GlobalPos)

\* The writes of the loading loop, in loop order (rank).
CornerWrites ==
    { [rank |-> ((((v[1] * TexHeight + v[2]) * TexDepth + v[3]) * 2 + x) * 2 + y) * 2 + z,
       slot |-> CornerWriteSlot(v, x, y, z),
       val  |-> CornerGlobal(v, x, y, z)] :
         v \in Voxels, x \in {0, 1}, y \in {0, 1}, z \in {0, 1} }

\* The corner table: new cVector3d[W*H*D*8], each slot holding the last value
\* written to it ("Uninit" when the loop never writes it).
voxelCorners ==
    [n \in 0 .. (TexWidth * TexHeight * TexDepth * 8 - 1) |->
        LET ws == {w \in CornerWrites : w.slot = n}
        IN  IF ws = {} THEN "Uninit"
            ELSE (CHOOSE w \in ws : \A u \in ws : u.rank <= w.rank).val]

\* ------------------------------------------------------- collision search
getVoxelColor(img, v) == img[v]

\* Number of the 8 corners of voxel v strictly inside the tool sphere.
NumCornersInTool(v, center, radius) ==
    Cardinality({cor \in 0 .. 7 :
        LengthSq(Sub3(center, voxelCorners[CornerSlot(v, cor)])) < radius * radius})

Collision(v, center, radius) ==
    LET n == NumCornersInTool(v, center, radius) IN n > 0 /\ n < 8

\* The n-th offset (n in 0..26) of the nested loops over {-1,0,1}^3.
Offset(n) == <<(n \div 9) - 1, ((n \div 3) % 3) - 1, (n % 3) - 1>>

\* The guard of the neighbour loop.
NeighbourFaceOnly(v, o) ==
    /\ Abs(o[1]) + Abs(o[2]) + Abs(o[3]) = 1
    /\ v[1] + o[1] >= 0 /\ v[1] + o[1] < TexWidth
    /\ v[2] + o[2] >= 0 /\ v[2] + o[2] < TexHeight
    /\ v[3] + o[3] >= 0 /\ v[3] + o[3] < TexDepth
NeighbourOrSelfInRange(v, o) ==
    /\ v[1] + o[1] >= 0 /\ v[1] + o[1] < TexWidth
    /\ v[2] + o[2] >= 0 /\ v[2] + o[2] < TexHeight
    /\ v[3] + o[3] >= 0 /\ v[3] + o[3] < TexDepth
NeighbourInRange(v, o) ==
    /\ (o[1] # 0 \/ o[2] # 0 \/ o[3] # 0)
    /\ v[1] + o[1] >= 0 /\ v[1] + o[1] < TexWidth
    /\ v[2] + o[2] >= 0 /\ v[2] + o[2] < TexHeight
    /\ v[3] + o[3] >= 0 /\ v[3] + o[3] < TexDepth

\* alreadyChecked.find(index) != end()
IsCheckedCollidingOnly(checked, index) ==
    index \in checked /\ Collision(index, proxyPos, m_burrRadius)
IsChecked(checked, index) == index \in checked

\* The exit test after the corner count: only a colliding voxel, or the very
\* first voxel looked at, goes on to its neighbours.
ExpandsCollidingOnly(collision, checked) == collision
Expands(collision, checked) == ~(~collision /\ Cardinality(checked) # 1)

\* Whether the voxel is appended to listOfCollidingVoxels.
RecordsAnyColor(collision, color) == collision
Records(collision, color) == collision /\ color # m_zeroColor

\* One call of recursiveCheckFromVoxel up to its neighbour loop.  s is the
\* state of the search: the call stack (voxel and next offset of each frame),
\* alreadyChecked, listOfCollidingVoxels, the log of corner tests and the
\* recursive call made by the last step (caller and argument; <<>> if none).
EnterVoxel(s, v, img, center, radius) ==
    IF IsChecked(s.alreadyChecked, v) THEN s
    ELSE LET checked == s.alreadyChecked \cup {v}
             col == Collision(v, center, radius)
         IN  [stack |-> IF Expands(col, checked)
                        THEN Append(s.stack, [idx |-> v, n |-> 0])
                        ELSE s.stack,
              alreadyChecked |-> checked,
              listOfCollidingVoxels |->
                  IF Records(col, getVoxelColor(img, v))
                  THEN Append(s.listOfCollidingVoxels, v)
                  ELSE s.listOfCollidingVoxels,
              tested |-> Append(s.tested, v),
              call |-> s.call]

\* One iteration of the neighbour loop of the innermost active call, or its
\* return when the loop is over.
SearchStep(s, img, center, radius) ==
    LET d == Len(s.stack)
        f == s.stack[d]
    IN  IF f.n = 27
        THEN [s EXCEPT !.stack = SubSeq(s.stack, 1, d - 1), !.call = <<>>]
        ELSE LET t == [s EXCEPT !.stack[d].n = f.n + 1, !.call = <<>>]
                 newVoxelIndex == Add3(f.idx, Offset(f.n))
             IN  IF NeighbourInRange(f.idx, Offset(f.n))
                 THEN EnterVoxel([t EXCEPT !.call = <<f.idx, newVoxelIndex>>],
                                 newVoxelIndex, img, center, radius)
                 ELSE t

\* findIndexOfAllCollidingVoxels up to the first neighbour loop: the first
\* contact is pushed, then the recursion starts from it.
SearchStart(img, center, radius, first) ==
    EnterVoxel([stack |-> <<>>, alreadyChecked |-> {},
                listOfCollidingVoxels |-> <<first>>, tested |-> <<>>,
                call |-> <<>>],
               first, img, center, radius)

RECURSIVE SearchRun(_, _, _, _)
SearchRun(s, img, center, radius) ==
    IF s.stack = <<>> THEN s
    ELSE SearchRun(SearchStep(s, img, center, radius), img, center, radius)

\* The container after findIndexOfAllCollidingVoxels returns.
findIndexOfAllCollidingVoxels(img, center, radius, first) ==
    SearchRun(SearchStart(img, center, radius, first), img, center, radius)

\* ------------------------------------------------------------ shaft arbiter
\* Proxy/goal errors are integers in units of 0.00001, the epsilon of the
\* comparison.
Epsilon == 1
ErrLevels == {0, 1, 2}

\* The comparison of the arbiter's loop.
ExceedsByTwice(currError, maxError) == Abs(currError) > Abs(maxError + 2 * Epsilon)
Exceeds(currError, maxError) == Abs(currError) > Abs(maxError + Epsilon)

RECURSIVE ArbiterLoop(_, _, _)
ArbiterLoop(errs, i, best) ==
    IF i >= Len(errs) THEN best
    ELSE ArbiterLoop(errs, i + 1,
            IF Exceeds(errs[i + 1], best.m_maxError)
            THEN [m_maxError |-> errs[i + 1], m_targetToolCursor |-> i,
                  m_targetToolCursorIdx |-> i]
            ELSE best)

\* errs[i+1] is the proxy/goal distance of m_toolCursorList[i].
checkShaftCollision(errs) ==
    ArbiterLoop(errs, 0, [m_maxError |-> 0, m_targetToolCursor |-> 0,
                          m_targetToolCursorIdx |-> 0])

\* ------------------------------------------------------------ dirty region
\* cCollisionAABBBox: setEmpty puts m_min at +C_LARGE and m_max at -C_LARGE on
\* every axis; Large stands for C_LARGE and exceeds every voxel index.
Large == TexWidth + TexHeight + TexDepth
EmptyBox == [m_min |-> <<Large, Large, Large>>, m_max |-> <<0 - Large, 0 - Large, 0 - Large>>]

encloseMaxOnly(box, p) ==
    [m_min |-> box.m_min,
     m_max |-> <<Max(box.m_max[1], p[1]), Max(box.m_max[2], p[2]), Max(box.m_max[3], p[3])>>]
enclose(box, p) ==
    [m_min |-> <<Min(box.m_min[1], p[1]), Min(box.m_min[2], p[2]), Min(box.m_min[3], p[3])>>,
     m_max |-> <<Max(box.m_max[1], p[1]), Max(box.m_max[2], p[2]), Max(box.m_max[3], p[3])>>]

\* Whether voxel index v lies in the region [lo, hi].
InRegion(v, lo, hi) == \A a \in 1 .. 3 : lo[a] <= v[a] /\ v[a] <= hi[a]
IsEmptyRegion(lo, hi) == \E a \in 1 .. 3 : lo[a] > hi[a]

\* ------------------------------------------------------------------ inputs
HalfPitch == VoxelPitch \div 2

BoneVolume == [v \in Voxels |-> "Bone"]
LoadedVolume == [v \in Voxels |-> IF v = <<1, 0, 0>> THEN "Crit" ELSE "Bone"]
DrilledVolume ==
    [v \in Voxels |-> IF v \in {<<0, 0, 0>>, <<1, 1, 0>>} THEN "Zero"
                      ELSE IF v = <<1, 0, 0>> THEN "Crit" ELSE "Bone"]

Radii == {InitRadius, Radius2mm, Radius4mm, Radius6mm}

\* Proxy positions tried by the search: a corner of the volume, a voxel centre,
\* a corner shared by eight voxels, a point on an edge of the volume and a
\* point outside it.
Centers ==
    { <<0, 0, 0>>,
      <<HalfPitch, HalfPitch, HalfPitch>>,
      <<VoxelPitch, VoxelPitch, VoxelPitch>>,
      <<VoxelPitch, 0, 0>>,
      <<0 - HalfPitch, HalfPitch, HalfPitch>> }

\* Contacts reported by the proxy solver to a physics tick: proxy position and
\* voxel index of the first collision event.
Contacts ==
    { [pos |-> <<0, 0, 0>>, voxel |-> <<0, 0, 0>>],
      [pos |-> <<HalfPitch, HalfPitch, HalfPitch>>, voxel |-> <<0, 0, 0>>],
      [pos |-> <<VoxelPitch, 0, 0>>, voxel |-> <<1, 0, 0>>],
      [pos |-> <<2 * VoxelPitch, 0, 0>>, voxel |-> <<2, 0, 0>>] }

NoSearch == [stack |-> <<>>, alreadyChecked |-> {}, listOfCollidingVoxels |-> <<>>,
             tested |-> <<>>, call |-> <<>>]

\* The initial content of m_volumeUpdate is whatever its constructor leaves:
\* an empty box or a box around the origin.
InitialBoxes == {EmptyBox, [m_min |-> Zero3, m_max |-> Zero3]}

CommonInit ==
    /\ search = NoSearch
    /\ allCollidingVoxelIndex = <<>>
    /\ critialRegionFlag = FALSE
    /\ volIndex = Zero3
    /\ m_targetToolCursorIdx = 0
    /\ m_targetToolCursor = 0
    /\ warningShown = FALSE
    /\ m_flagMarkVolumeForUpdate = FALSE
    /\ m_mutexVoxel = "free"
    /\ pcGraphics = "idle"
    /\ min = Zero3
    /\ max = Zero3
    /\ tick = 0
    /\ carving = FALSE
    /\ colorAtTick = voxelColor
    /\ warningAtTick = FALSE
    /\ published = [v \in Voxels |-> 0]
    /\ unrefreshed = {}
    /\ removedSinceClear = {}
    /\ clearedOnce = FALSE

\* A transform: position along the tool axis (in units of 0.00001) and an
\* orientation.
Transform(p, r) == [pos |-> p, rot |-> r]
Rots == {0, 1}

\* The members the class declaration initialises: the drill size is 2 mm, the
\* latch is started with its count at zero and the manipulation mode is idle.
HeaderInit ==
    /\ m_drillSizeIdx = 0
    /\ m_currDrillSize = 2
    /\ m_flagStart = TRUE
    /\ m_counter = 0
    /\ m_controlMode = "HAPTIC_IDLE"

\* The plugin after a successful init with NumCursors tool cursors, the drill
\* at rest at the origin and the controller idle.
ControlIdle ==
    /\ nt = NumCursors
    /\ optInfo = FALSE
    /\ drillFound = TRUE
    /\ volumeFound = TRUE
    /\ initResult = 1
    /\ numToolCursors = NumCursors
    /\ imageSize = texSize
    /\ textureWarning = FALSE
    /\ numCorners = TexWidth * TexHeight * TexDepth * 8
    /\ cornersLoaded = TRUE
    /\ cursorsStarted = TRUE
    /\ originalColor = voxelColor
    /\ T_d = Transform(0, 0)
    /\ drillTransform = Transform(0, 0)
    /\ deviceAvailable = <<>>
    /\ heldTransform = Transform(0, 0)
    /\ m_suddenJump = FALSE
    /\ proxyErr = <<>>
    /\ m_maxError = 0
    /\ stagesDone = {}
    /\ tipRadius = m_burrRadius
    /\ HeaderInit
    /\ startedAtTick = TRUE
    /\ zeroRun = 0
    /\ modeAtTick = "HAPTIC_IDLE"
    /\ m_selectedObject = "none"
    /\ m_tool_T_object = 0
    /\ volumeTransform = voxelObjPos[1]
    /\ volumeAtTick = volumeTransform
    /\ force = 0
    /\ button = FALSE
    /\ deviceLocalForce = 0

\* --------------------------------------------------- physics task: carving
setVoxelColorBoneOnly(img, v, c) ==
    IF img[v] = m_boneColor THEN [img EXCEPT ![v] = c] ELSE img
setVoxelColorToggle(img, v, c) ==
    [img EXCEPT ![v] = IF @ = c THEN m_boneColor ELSE c]
setVoxelColor(img, v, c) == [img EXCEPT ![v] = c]

acquireNoWait(task) == m_mutexVoxel' = task
acquire(task) == m_mutexVoxel = "free" /\ m_mutexVoxel' = task
release(task) == m_mutexVoxel' = "free"

\* The show/hide of the warning panel decided by one tick.
WarningPerTick(carved, flag, shown) == carved /\ flag
WarningAfter(carved, flag, shown) ==
    IF carved THEN (IF flag THEN TRUE ELSE shown) ELSE FALSE

\* The gate of the carving branch and what follows it up to the drain loop:
\* with the tip in contact and the tip the target cursor, the collision search
\* fills the container; otherwise the warning panel is hidden.
CarveGateAnyCursor(target, contacts) ==
    \/ \E c \in contacts :
         LET found == findIndexOfAllCollidingVoxels(
                          voxelColor, c.pos, m_burrRadius, c.voxel)
         IN  /\ proxyPos' = c.pos
             /\ firstContact' = c.voxel
             /\ search' = found
             /\ allCollidingVoxelIndex' = found.listOfCollidingVoxels
             /\ critialRegionFlag' = FALSE
             /\ carving' = TRUE
             /\ pcPhysics' = "drain"
             /\ UNCHANGED warningShown
    \/ \E inContact \in BOOLEAN :
         /\ ~(inContact /\ target = 0)
         /\ warningShown' = WarningAfter(FALSE, FALSE, warningShown)
         /\ carving' = FALSE
         /\ pcPhysics' = "finalize"
         /\ UNCHANGED <<proxyPos, firstContact, search,
                        allCollidingVoxelIndex, critialRegionFlag>>
CarveGate(target, contacts) ==
    \/ \E c \in contacts :
         \* isInContact(m_voxelObj) && m_targetToolCursorIdx == 0
         LET found == findIndexOfAllCollidingVoxels(
                          voxelColor, c.pos, m_burrRadius, c.voxel)
         IN  /\ target = 0
             /\ proxyPos' = c.pos
             /\ firstContact' = c.voxel
             /\ search' = found
             /\ allCollidingVoxelIndex' = found.listOfCollidingVoxels
             /\ critialRegionFlag' = FALSE
             /\ carving' = TRUE
             /\ pcPhysics' = "drain"
             /\ UNCHANGED warningShown
    \/ \E inContact \in BOOLEAN :
         /\ ~(inContact /\ target = 0)
         /\ warningShown' = WarningAfter(FALSE, FALSE, warningShown)
         /\ carving' = FALSE
         /\ pcPhysics' = "finalize"
         /\ UNCHANGED <<proxyPos, firstContact, search,
                        allCollidingVoxelIndex, critialRegionFlag>>

\* physicsUpdate from its start to the drain loop: pose update, shaft arbiter,
\* the contact test and the collision search.
PhysicsBegin ==
    /\ pcPhysics = "idle"
    /\ tick < MaxTicks
    /\ colorAtTick' = voxelColor
    /\ warningAtTick' = warningShown
    /\ \E target \in {checkShaftCollision(errs).m_targetToolCursorIdx :
                        errs \in [1 .. NumCursors -> ErrLevels]} :
         /\ m_targetToolCursorIdx' = target
         /\ m_targetToolCursor' = target
         /\ CarveGate(target, Contacts)
    /\ UNCHANGED <<voxelColor, m_burrRadius, volIndex, sharedVars, graphicsVars,
                   tick, historyVars>>
    /\ UNCHANGED controlVars

\* The test of the stored colour that raises the critical-region flag.
IsCriticalNotBone(color) == color # m_boneColor
IsCritical(color) == color # m_boneColor /\ color # m_zeroColor

\* One iteration of the drain loop up to the lock: pop the back of the
\* container, read the colour, publish, test the colour, clear the voxel.
DrainPop ==
    /\ pcPhysics = "drain"
    /\ allCollidingVoxelIndex # <<>>
    /\ LET n == Len(allCollidingVoxelIndex)
           v == allCollidingVoxelIndex[n]
           m_storedColor == getVoxelColor(voxelColor, v)
       IN  /\ volIndex' = v
           /\ allCollidingVoxelIndex' = SubSeq(allCollidingVoxelIndex, 1, n - 1)
           /\ published' = [published EXCEPT ![v] = @ + 1]
           /\ critialRegionFlag' =
                  (critialRegionFlag \/ IsCritical(m_storedColor))
           /\ voxelColor' = setVoxelColor(voxelColor, v, m_zeroColor)
           /\ unrefreshed' = IF m_storedColor # m_zeroColor
                             THEN unrefreshed \cup {v} ELSE unrefreshed
           /\ removedSinceClear' = removedSinceClear \cup {v}
    /\ pcPhysics' = "acquire"
    /\ UNCHANGED <<inputVars, search, m_targetToolCursorIdx, m_targetToolCursor, warningShown, sharedVars,
                   graphicsVars, tickVars, clearedOnce>>
    /\ UNCHANGED controlVars

PhysicsAcquire ==
    /\ pcPhysics = "acquire"
    /\ acquire("physics")
    /\ pcPhysics' = "enclose"
    /\ UNCHANGED <<voxelColor, inputVars, search, drainVars, m_targetToolCursorIdx, m_targetToolCursor,
                   warningShown, m_volumeUpdate, m_flagMarkVolumeForUpdate,
                   graphicsVars, tickVars, historyVars>>
    /\ UNCHANGED controlVars

PhysicsEnclose ==
    /\ pcPhysics = "enclose"
    /\ m_volumeUpdate' = enclose(m_volumeUpdate, volIndex)
    /\ pcPhysics' = "release"
    /\ UNCHANGED <<voxelColor, inputVars, search, drainVars, m_targetToolCursorIdx, m_targetToolCursor,
                   warningShown, m_flagMarkVolumeForUpdate, m_mutexVoxel,
                   graphicsVars, tickVars, historyVars>>
    /\ UNCHANGED controlVars

PhysicsRelease ==
    /\ pcPhysics = "release"
    /\ release("physics")
    /\ pcPhysics' = "drain"
    /\ UNCHANGED <<voxelColor, inputVars, search, drainVars, m_targetToolCursorIdx, m_targetToolCursor,
                   warningShown, m_volumeUpdate, m_flagMarkVolumeForUpdate,
                   graphicsVars, tickVars, historyVars>>
    /\ UNCHANGED controlVars

\* The container is empty: warning panel, then the volume is flagged for update.
DrainDone ==
    /\ pcPhysics = "drain"
    /\ allCollidingVoxelIndex = <<>>
    /\ warningShown' = WarningAfter(TRUE, critialRegionFlag, warningShown)
    /\ m_flagMarkVolumeForUpdate' = TRUE
    /\ pcPhysics' = "finalize"
    /\ UNCHANGED <<voxelColor, inputVars, search, drainVars, m_targetToolCursorIdx, m_targetToolCursor,
                   m_volumeUpdate, m_mutexVoxel, graphicsVars, tickVars, historyVars>>
    /\ UNCHANGED controlVars

\* The rest of physicsUpdate; the tick is over.
PhysicsEnd ==
    /\ pcPhysics = "finalize"
    /\ pcPhysics' = "idle"
    /\ tick' = tick + 1
    /\ UNCHANGED <<voxelColor, inputVars, search, drainVars, m_targetToolCursorIdx, m_targetToolCursor,
                   warningShown, sharedVars, graphicsVars, carving, colorAtTick,
                   warningAtTick, historyVars>>
    /\ UNCHANGED controlVars

physicsUpdate ==
    \/ PhysicsBegin
    \/ DrainPop
    \/ PhysicsAcquire
    \/ PhysicsEnclose
    \/ PhysicsRelease
    \/ DrainDone
    \/ PhysicsEnd

\* ------------------------------------------------------------ graphics task
physicsVars == <<voxelColor, inputVars, search, pcPhysics, drainVars,
                 m_targetToolCursorIdx, m_targetToolCursor, warningShown, tickVars>>

GraphicsBegin ==
    /\ pcGraphics = "idle"
    /\ m_flagMarkVolumeForUpdate
    /\ pcGraphics' = "acquire"
    /\ UNCHANGED <<physicsVars, sharedVars, min, max, historyVars>>
    /\ UNCHANGED controlVars

GraphicsAcquire ==
    /\ pcGraphics = "acquire"
    /\ acquire("graphics")
    /\ pcGraphics' = "readMin"
    /\ UNCHANGED <<physicsVars, m_volumeUpdate, m_flagMarkVolumeForUpdate, min, max,
                   historyVars>>
    /\ UNCHANGED controlVars

GraphicsReadMin ==
    /\ pcGraphics = "readMin"
    /\ min' = m_volumeUpdate.m_min
    /\ pcGraphics' = "readMax"
    /\ UNCHANGED <<physicsVars, sharedVars, max, historyVars>>
    /\ UNCHANGED controlVars

GraphicsReadMax ==
    /\ pcGraphics = "readMax"
    /\ max' = m_volumeUpdate.m_max
    /\ pcGraphics' = "setEmpty"
    /\ UNCHANGED <<physicsVars, sharedVars, min, historyVars>>
    /\ UNCHANGED controlVars

\* A voxel already cleared whose enclose is still to come counts as removed
\* after this setEmpty.
GraphicsSetEmpty ==
    /\ pcGraphics = "setEmpty"
    /\ m_volumeUpdate' = EmptyBox
    /\ removedSinceClear' = IF pcPhysics \in {"acquire", "enclose"} THEN {volIndex} ELSE {}
    /\ clearedOnce' = TRUE
    /\ pcGraphics' = "release"
    /\ UNCHANGED <<physicsVars, m_flagMarkVolumeForUpdate, m_mutexVoxel, min, max,
                   published, unrefreshed>>
    /\ UNCHANGED controlVars

GraphicsRelease ==
    /\ pcGraphics = "release"
    /\ release("graphics")
    /\ pcGraphics' = "mark"
    /\ UNCHANGED <<physicsVars, m_volumeUpdate, m_flagMarkVolumeForUpdate, min, max,
                   historyVars>>
    /\ UNCHANGED controlVars

\* markForPartialUpdate(min, max)
GraphicsMark ==
    /\ pcGraphics = "mark"
    /\ unrefreshed' = {v \in unrefreshed : ~InRegion(v, min, max)}
    /\ pcGraphics' = "clearFlag"
    /\ UNCHANGED <<physicsVars, sharedVars, min, max, published, removedSinceClear,
                   clearedOnce>>
    /\ UNCHANGED controlVars

GraphicsClearFlag ==
    /\ pcGraphics = "clearFlag"
    /\ m_flagMarkVolumeForUpdate' = FALSE
    /\ pcGraphics' = "idle"
    /\ min' = Zero3
    /\ max' = Zero3
    /\ UNCHANGED <<physicsVars, m_volumeUpdate, m_mutexVoxel, historyVars>>
    /\ UNCHANGED controlVars

graphicsUpdate ==
    \/ GraphicsBegin
    \/ GraphicsAcquire
    \/ GraphicsReadMin
    \/ GraphicsReadMax
    \/ GraphicsSetEmpty
    \/ GraphicsRelease
    \/ GraphicsMark
    \/ GraphicsClearFlag

\* ------------------------------------------------------------ specification
Init ==
    /\ voxelColor \in {BoneVolume, LoadedVolume}
    /\ m_burrRadius = InitRadius
    /\ proxyPos = Zero3
    /\ firstContact = Zero3
    /\ pcPhysics = "idle"
    /\ m_volumeUpdate \in InitialBoxes
    /\ CommonInit
    /\ ControlIdle

Next == physicsUpdate \/ graphicsUpdate

Spec == Init /\ [][Next]_vars

\* ------------------------------------- the collision search, step by step
\* One invocation of findIndexOfAllCollidingVoxels on every input of the
\* bounded sets, one neighbour-loop iteration at a time.
SearchInit ==
    /\ voxelColor \in {LoadedVolume, DrilledVolume}
    /\ m_burrRadius \in Radii
    /\ proxyPos \in Centers
    /\ firstContact \in Voxels
    /\ pcPhysics = "findIndex"
    /\ m_volumeUpdate = EmptyBox
    /\ CommonInit
    /\ ControlIdle

nonSearchVars == <<voxelColor, inputVars, critialRegionFlag, volIndex,
                   m_targetToolCursorIdx, m_targetToolCursor, warningShown, sharedVars, graphicsVars,
                   tickVars, historyVars>>

FindIndexStart ==
    /\ pcPhysics = "findIndex"
    /\ search' = SearchStart(voxelColor, proxyPos, m_burrRadius, firstContact)
    /\ pcPhysics' = "recursing"
    /\ UNCHANGED <<allCollidingVoxelIndex, nonSearchVars>>
    /\ UNCHANGED controlVars

RecurseNeighbour ==
    /\ pcPhysics = "recursing"
    /\ search.stack # <<>>
    /\ search.stack[Len(search.stack)].n < 27
    /\ search' = SearchStep(search, voxelColor, proxyPos, m_burrRadius)
    /\ UNCHANGED <<pcPhysics, allCollidingVoxelIndex, nonSearchVars>>
    /\ UNCHANGED controlVars

RecurseReturn ==
    /\ pcPhysics = "recursing"
    /\ search.stack # <<>>
    /\ search.stack[Len(search.stack)].n = 27
    /\ search' = SearchStep(search, voxelColor, proxyPos, m_burrRadius)
    /\ UNCHANGED <<pcPhysics, allCollidingVoxelIndex, nonSearchVars>>
    /\ UNCHANGED controlVars

FindIndexReturn ==
    /\ pcPhysics = "recursing"
    /\ search.stack = <<>>
    /\ allCollidingVoxelIndex' = search.listOfCollidingVoxels
    /\ pcPhysics' = "found"
    /\ UNCHANGED <<search, nonSearchVars>>
    /\ UNCHANGED controlVars

SearchNext == FindIndexStart \/ RecurseNeighbour \/ RecurseReturn \/ FindIndexReturn

SpecSearch == SearchInit /\ [][SearchNext]_vars

\* ------------------------------------------- init and the physics tick
\* The values of --nt tried: both ends of the valid range, the model's number
\* of cursors and the neighbours of the range.
NtOptions == {0, 1, NumCursors, MaxToolCursors, MaxToolCursors + 1}

\* The texture sizes tried by init: the grid of the model and textures with no
\* texel along the first or the last axis.
ImageSizes == {texSize, <<0, TexHeight, TexDepth>>, <<TexWidth, TexHeight, 0>>}

\* The test before the warning, and the number of entries of the corner table
\* init allocates for a texture of this size.
ZeroSized(size) == size[1] = 0 \/ size[2] = 0 \/ size[3] = 0
CornerTableSize(size) == size[1] * size[2] * size[3] * 8

\* What init leaves behind and returns, following its early returns in order.
initFailsOnEmptyTexture(info, n, drill, volume) ==
    IF info \/ ~(n > 0 /\ n <= MaxToolCursors)
    THEN [ret |-> 0 - 1, cursors |-> 0, burr |-> FALSE, corners |-> FALSE, started |-> FALSE]
    ELSE IF ~drill
    THEN [ret |-> 0 - 1, cursors |-> n, burr |-> FALSE, corners |-> FALSE, started |-> FALSE]
    ELSE IF ~volume
    THEN [ret |-> 0 - 1, cursors |-> n, burr |-> TRUE, corners |-> FALSE, started |-> FALSE]
    ELSE IF ZeroSized(imageSize)
    THEN [ret |-> 0 - 1, cursors |-> n, burr |-> TRUE, corners |-> FALSE, started |-> TRUE]
    ELSE [ret |-> 1, cursors |-> n, burr |-> TRUE, corners |-> TRUE, started |-> TRUE]
initNoVolumeCheck(info, n, drill, volume) ==
    IF info \/ ~(n > 0 /\ n <= MaxToolCursors)
    THEN [ret |-> 0 - 1, cursors |-> 0, burr |-> FALSE, corners |-> FALSE, started |-> FALSE]
    ELSE IF ~drill
    THEN [ret |-> 0 - 1, cursors |-> n, burr |-> FALSE, corners |-> FALSE, started |-> FALSE]
    ELSE [ret |-> 1, cursors |-> n, burr |-> TRUE, corners |-> TRUE, started |-> TRUE]
init(info, n, drill, volume) ==
    IF info
    THEN [ret |-> 0 - 1, cursors |-> 0, burr |-> FALSE, corners |-> FALSE, started |-> FALSE]
    ELSE IF ~(n > 0 /\ n <= MaxToolCursors)
    THEN [ret |-> 0 - 1, cursors |-> 0, burr |-> FALSE, corners |-> FALSE, started |-> FALSE]
    ELSE IF ~drill
    THEN [ret |-> 0 - 1, cursors |-> n, burr |-> FALSE, corners |-> FALSE, started |-> FALSE]
    ELSE IF ~volume
    THEN [ret |-> 0 - 1, cursors |-> n, burr |-> TRUE, corners |-> FALSE, started |-> FALSE]
    ELSE [ret |-> 1, cursors |-> n, burr |-> TRUE, corners |-> TRUE, started |-> TRUE]

\* The plugin before init: the options and the content of the world.
TickInit ==
    /\ pcPhysics = "uninit"
    /\ nt \in NtOptions
    /\ optInfo \in BOOLEAN
    /\ drillFound \in BOOLEAN
    /\ volumeFound \in BOOLEAN
    /\ initResult = 0
    /\ numToolCursors = 0
    /\ imageSize \in ImageSizes
    /\ textureWarning = FALSE
    /\ numCorners = 0
    /\ cornersLoaded = FALSE
    /\ cursorsStarted = FALSE
    /\ voxelColor = LoadedVolume
    /\ originalColor = voxelColor
    /\ m_burrRadius = 0
    /\ tipRadius = 0
    /\ proxyPos = Zero3
    /\ firstContact = Zero3
    /\ m_volumeUpdate = EmptyBox
    /\ T_d = Transform(0, 0)
    /\ drillTransform = Transform(0, 1)
    /\ heldTransform = drillTransform
    /\ m_suddenJump \in BOOLEAN
    /\ deviceAvailable = <<>>
    /\ proxyErr = <<>>
    /\ m_maxError = 0
    /\ stagesDone = {}
    /\ HeaderInit
    /\ startedAtTick = TRUE
    /\ zeroRun = 0
    /\ modeAtTick = "HAPTIC_IDLE"
    /\ m_selectedObject = "none"
    /\ m_tool_T_object = 0
    /\ volumeTransform = voxelObjPos[1]
    /\ volumeAtTick = volumeTransform
    /\ force = 0
    /\ button = FALSE
    /\ deviceLocalForce = 0
    /\ CommonInit

carveVars == <<voxelColor, proxyPos, firstContact, search, drainVars, warningShown,
               sharedVars, graphicsVars, carving, historyVars>>

PluginInit ==
    /\ pcPhysics = "uninit"
    /\ LET r == init(optInfo, nt, drillFound, volumeFound)
       IN  /\ initResult' = r.ret
           /\ numToolCursors' = r.cursors
           /\ cornersLoaded' = r.corners
           /\ textureWarning' = (r.corners /\ ZeroSized(imageSize))
           /\ numCorners' = IF r.corners THEN CornerTableSize(imageSize) ELSE numCorners
           /\ cursorsStarted' = r.started
           /\ m_burrRadius' = IF r.burr THEN InitRadius ELSE m_burrRadius
           /\ tipRadius' = IF r.started THEN InitRadius ELSE tipRadius
           /\ T_d' = IF r.ret = 1 THEN drillTransform ELSE T_d
           /\ pcPhysics' = IF r.ret = 1 THEN "idle" ELSE "failed"
    /\ UNCHANGED <<nt, optInfo, drillFound, volumeFound, imageSize, originalColor,
                   drillTransform,
                   deviceAvailable, heldTransform, m_suddenJump, arbiterVars, m_drillSizeIdx,
                   m_currDrillSize, latchVars, modeVars, forceVars>>
    /\ UNCHANGED <<carveVars, m_targetToolCursorIdx, m_targetToolCursor, tick, colorAtTick, warningAtTick>>

\* The start of physicsUpdate: the commanded pose follows the device, or holds
\* the drill's transform when there is no device.  Ticks are explored for at
\* most NumCursors tool cursors and the texture of the model's grid.
TickDevice ==
    /\ pcPhysics = "idle"
    /\ initResult = 1
    /\ numToolCursors <= NumCursors
    /\ imageSize = texSize
    /\ tick < MaxTicks
    /\ \E avail \in BOOLEAN :
         /\ deviceAvailable' = <<avail>>
         /\ IF avail
            THEN \E v \in {0, 1}, r \in Rots :
                   /\ T_d.pos + v <= MaxPos
                   /\ T_d' = Transform(T_d.pos + v, r)
            ELSE T_d' = drillTransform
    /\ heldTransform' = drillTransform
    /\ stagesDone' = {}
    /\ colorAtTick' = voxelColor
    /\ warningAtTick' = warningShown
    /\ pcPhysics' = "toolCursors"
    /\ UNCHANGED <<initVars, drillTransform, m_suddenJump, proxyErr, m_maxError,
                   sizeVars, latchVars, modeVars, forceVars>>
    /\ UNCHANGED <<carveVars, m_burrRadius, m_targetToolCursorIdx, m_targetToolCursor, tick>>

\* The errors of a tick: the levels around epsilon and one past the tolerance
\* of drillPosUpdate.
TickErrLevels == ErrLevels \cup {PosTolerance + 1}

\* The errors the arbiter can read: the tip's is around epsilon, those of the
\* cursors past NumCursors are 0.
ErrsFor(n) ==
    {[i \in 1 .. n |-> IF i <= NumCursors THEN e[i] ELSE 0] :
        e \in {f \in [1 .. Min(n, NumCursors) -> TickErrLevels] : f[1] \in ErrLevels}}

\* toolCursorsPosUpdate(T_d), then checkShaftCollision on the proxies the
\* solver left.
TickArbiter ==
    /\ pcPhysics = "toolCursors"
    /\ \E errs \in ErrsFor(numToolCursors) :
         /\ proxyErr' = errs
         /\ m_maxError' = checkShaftCollision(errs).m_maxError
         /\ m_targetToolCursorIdx' = checkShaftCollision(errs).m_targetToolCursorIdx
         /\ m_targetToolCursor' = checkShaftCollision(errs).m_targetToolCursor
    /\ stagesDone' = stagesDone \cup {"arbiter"}
    /\ pcPhysics' = "drillPos"
    /\ UNCHANGED <<initVars, poseVars, sizeVars, latchVars, modeVars, forceVars>>
    /\ UNCHANGED <<carveVars, m_burrRadius, tickVars>>

\* Local proxy position of tool cursor i: its goal, T_d moved i pitches along
\* the tool axis, pushed back by its error.
LocalPosProxy(Td, errs, i) == Td.pos + i * m_dX - errs[i + 1]

drillPosUpdateNoTolerance(target, cursor, errs, Td, drill, suddenJump) ==
    LET follow == LocalPosProxy(Td, errs, cursor) - m_dX * target
    IN  Transform(IF target = 0 \/ ~suddenJump THEN follow
                  ELSE drill.pos + ((follow - drill.pos) * 4) \div 100,
                  Td.rot)
drillPosUpdate(target, cursor, errs, Td, drill, suddenJump) ==
    IF target = 0
    THEN Transform(LocalPosProxy(Td, errs, 0), Td.rot)
    ELSE IF errs[cursor + 1] <= PosTolerance
    THEN LET follow == LocalPosProxy(Td, errs, cursor) - m_dX * target
         IN  Transform(IF ~suddenJump THEN follow
                       ELSE drill.pos + ((follow - drill.pos) * 4) \div 100,
                       Td.rot)
    ELSE drill

\* Whether physicsUpdate calls drillPosUpdate.
UpdatesDrillPosAlways(avail) == TRUE
UpdatesDrillPosNever(avail) == FALSE
UpdatesDrillPos(avail) == avail

TickDrillPos ==
    /\ pcPhysics = "drillPos"
    /\ \E avail \in BOOLEAN :
         /\ deviceAvailable' = Append(deviceAvailable, avail)
         /\ IF UpdatesDrillPos(avail)
            THEN /\ drillTransform' = drillPosUpdate(m_targetToolCursorIdx, m_targetToolCursor,
                                                     proxyErr, T_d,
                                                     drillTransform, m_suddenJump)
                 /\ stagesDone' = stagesDone \cup {"drillPose"}
            ELSE UNCHANGED <<drillTransform, stagesDone>>
    /\ pcPhysics' = "gate"
    /\ UNCHANGED <<initVars, T_d, heldTransform, m_suddenJump, proxyErr, m_maxError,
                   sizeVars, latchVars, modeVars, forceVars>>
    /\ UNCHANGED <<carveVars, m_burrRadius, m_targetToolCursorIdx, m_targetToolCursor, tickVars>>

\* The contacts tried by the tick: the centre of voxel (0,0,0) and the corner of
\* the protected voxel (1,0,0).
TickContacts == {c \in Contacts : c.voxel # <<2, 0, 0>> /\ c.pos # Zero3}

TickGate ==
    /\ pcPhysics = "gate"
    /\ CarveGate(m_targetToolCursorIdx, TickContacts)
    /\ proxyErr' = <<>>
    /\ UNCHANGED <<initVars, poseVars, m_maxError, stagesDone, sizeVars, latchVars,
                   modeVars, forceVars>>
    /\ UNCHANGED <<voxelColor, m_burrRadius, volIndex, sharedVars, graphicsVars,
                   m_targetToolCursorIdx, m_targetToolCursor, tick, colorAtTick, warningAtTick, historyVars>>

\* Key X of keyboardUpdate: the toggle of the sudden jump.
KeyToggleSuddenJump ==
    /\ pcPhysics = "idle"
    /\ initResult = 1
    /\ m_suddenJump' = ~m_suddenJump
    /\ UNCHANGED <<initVars, T_d, drillTransform, deviceAvailable, heldTransform,
                   arbiterVars, sizeVars, latchVars, modeVars, forceVars>>
    /\ UNCHANGED <<voxelColor, inputVars, search, pcPhysics, drainVars,
                   m_targetToolCursorIdx, m_targetToolCursor, warningShown, sharedVars,
                   graphicsVars, tickVars, historyVars>>

\* The volume reset command of keyboardUpdate.
VolumeReset ==
    /\ pcPhysics = "idle"
    /\ initResult = 1
    /\ voxelColor' = originalColor
    /\ stagesDone' = {"reset"}
    /\ UNCHANGED <<initVars, poseVars, proxyErr, m_maxError, sizeVars, latchVars,
                   modeVars, forceVars>>
    /\ UNCHANGED <<inputVars, search, pcPhysics, drainVars, m_targetToolCursorIdx, m_targetToolCursor,
                   warningShown, sharedVars, graphicsVars, tickVars, historyVars>>

\* The rest of physicsUpdate; the tick is over and what it read is dropped.
TickEnd ==
    /\ pcPhysics = "finalize"
    /\ pcPhysics' = "idle"
    /\ tick' = tick + 1
    /\ deviceAvailable' = <<>>
    /\ stagesDone' = {}
    /\ UNCHANGED <<initVars, T_d, drillTransform, heldTransform, m_suddenJump, proxyErr,
                   m_maxError, sizeVars, latchVars, modeVars, forceVars>>
    /\ UNCHANGED <<voxelColor, inputVars, search, drainVars, m_targetToolCursorIdx, m_targetToolCursor,
                   warningShown, sharedVars, graphicsVars, carving, colorAtTick,
                   warningAtTick, historyVars>>

TickNext ==
    \/ PluginInit
    \/ TickDevice
    \/ TickArbiter
    \/ TickDrillPos
    \/ TickGate
    \/ DrainPop
    \/ PhysicsAcquire
    \/ PhysicsEnclose
    \/ PhysicsRelease
    \/ DrainDone
    \/ TickEnd
    \/ VolumeReset
    \/ KeyToggleSuddenJump

SpecTick == TickInit /\ [][TickNext]_vars

\* ------------------------------------- the controller: latch, mode, size
\* Lengths of the output force tried: zero, the start threshold and above it.
ForceLevels == {0, StartForce, StartForce + 1}

\* The warm-up latch: m_flagStart and m_counter after a tick with output force
\* of length f, and whether the tip cursor was initialized again.
LatchStartsAtThreshold(flag, counter, f) ==
    IF flag
    THEN IF f # 0
         THEN [m_flagStart |-> TRUE, m_counter |-> 0, initialized |-> TRUE]
         ELSE [m_flagStart |-> ~(counter + 1 > MaxZeroTicks), m_counter |-> counter + 1,
               initialized |-> FALSE]
    ELSE [m_flagStart |-> f >= StartForce, m_counter |-> counter, initialized |-> FALSE]
Latch(flag, counter, f) ==
    IF flag
    THEN IF f # 0
         THEN [m_flagStart |-> TRUE, m_counter |-> 0, initialized |-> TRUE]
         ELSE [m_flagStart |-> ~(counter + 1 > MaxZeroTicks), m_counter |-> counter + 1,
               initialized |-> FALSE]
    ELSE [m_flagStart |-> f > StartForce, m_counter |-> counter, initialized |-> FALSE]

\* Places of the tool tried by the manipulation block, and what the tip
\* touches when the switch is pressed.
ToolPositions == {0, VoxelPitch}
Hits == {"none", "voxelObj", "other"}

\* Place of an object of the world: only the volume is ever moved.
ObjectPos(obj, volume) == IF obj = "voxelObj" THEN volume ELSE 0

\* The manipulation block: from the mode, the held object and its place seen
\* from the tool, the place of the volume and the force set so far, with
\* switch b, the tool at w and the tip touching hit.
ManipulationMovesAny(mode, selected, toolObj, volume, devForce, b, w, hit) ==
    IF mode = "HAPTIC_IDLE" /\ b
    THEN LET obj == IF hit # "none" THEN hit ELSE "voxelObj"
         IN  [m_selectedObject |-> obj,
              m_tool_T_object |-> ObjectPos(obj, volume) - w,
              volumeTransform |-> volume, deviceLocalForce |-> devForce]
    ELSE IF mode = "HAPTIC_SELECTION" /\ b
    THEN [m_selectedObject |-> selected,
          m_tool_T_object |-> toolObj,
          volumeTransform |-> w + toolObj,
          deviceLocalForce |-> 0]
    ELSE [m_selectedObject |-> selected,
          m_tool_T_object |-> toolObj, volumeTransform |-> volume,
          deviceLocalForce |-> devForce]
Manipulation(mode, selected, toolObj, volume, devForce, b, w, hit) ==
    IF mode = "HAPTIC_IDLE" /\ b
    THEN LET obj == IF hit # "none" THEN hit ELSE "voxelObj"
         IN  [m_selectedObject |-> obj,
              m_tool_T_object |-> ObjectPos(obj, volume) - w,
              volumeTransform |-> volume, deviceLocalForce |-> devForce]
    ELSE IF mode = "HAPTIC_SELECTION" /\ b
    THEN [m_selectedObject |-> selected,
          m_tool_T_object |-> toolObj,
          volumeTransform |-> IF selected = "voxelObj" THEN w + toolObj ELSE volume,
          deviceLocalForce |-> 0]
    ELSE [m_selectedObject |-> selected,
          m_tool_T_object |-> toolObj, volumeTransform |-> volume,
          deviceLocalForce |-> devForce]

\* The manipulation mode after a tick that began in mode and read switch b.
ControlModeNoRelease(mode, b) ==
    IF mode = "HAPTIC_IDLE" /\ b THEN "HAPTIC_SELECTION" ELSE mode
ControlMode(mode, b) ==
    IF mode = "HAPTIC_IDLE" /\ b THEN "HAPTIC_SELECTION"
    ELSE IF mode = "HAPTIC_SELECTION" /\ b THEN mode
    ELSE "HAPTIC_IDLE"

\* changeDrillSize: the index, the size shown and the two radii it sets.
changeDrillSizeBurrOnly(idx, tip) ==
    LET i == IF idx + 1 > 2 THEN 0 ELSE idx + 1
        r == <<Radius2mm, Radius4mm, Radius6mm>>[i + 1]
    IN  [m_drillSizeIdx |-> i, m_currDrillSize |-> 2 * (i + 1), tipRadius |-> tip,
         m_burrRadius |-> r]
changeDrillSize(idx, tip) ==
    LET i == IF idx + 1 > 2 THEN 0 ELSE idx + 1
        r == <<Radius2mm, Radius4mm, Radius6mm>>[i + 1]
    IN  [m_drillSizeIdx |-> i, m_currDrillSize |-> 2 * (i + 1), tipRadius |-> r,
         m_burrRadius |-> r]

ControllerInit ==
    /\ voxelColor = BoneVolume
    /\ m_burrRadius = InitRadius
    /\ proxyPos = Zero3
    /\ firstContact = Zero3
    /\ pcPhysics = "forces"
    /\ m_volumeUpdate = EmptyBox
    /\ CommonInit
    /\ ControlIdle

tickState == <<voxelColor, proxyPos, firstContact, search, drainVars,
               m_targetToolCursorIdx, m_targetToolCursor, warningShown, sharedVars, graphicsVars, tickVars,
               historyVars, initVars, poseVars, arbiterVars>>

\* computeInteractionForces and the output force of the tick.
TickForces ==
    /\ pcPhysics = "forces"
    /\ m_counter < MaxCounter
    /\ \E f \in ForceLevels :
         /\ force' = f
         /\ deviceLocalForce' = f
         /\ zeroRun' = IF f = 0 THEN Min(zeroRun + 1, MaxZeroTicks + 1) ELSE 0
    /\ startedAtTick' = m_flagStart
    /\ modeAtTick' = m_controlMode
    /\ volumeAtTick' = volumeTransform
    /\ pcPhysics' = "latch"
    /\ UNCHANGED <<tickState, m_burrRadius, sizeVars, m_flagStart, m_counter,
                   m_controlMode, m_selectedObject, m_tool_T_object, volumeTransform,
                   button>>

TickLatch ==
    /\ pcPhysics = "latch"
    /\ m_flagStart' = Latch(m_flagStart, m_counter, force).m_flagStart
    /\ m_counter' = Latch(m_flagStart, m_counter, force).m_counter
    /\ pcPhysics' = "manipulation"
    /\ UNCHANGED <<tickState, m_burrRadius, sizeVars, startedAtTick, zeroRun, modeVars,
                   forceVars>>

\* The manipulation block: the switch is read, the mode follows it, and while
\* an object is held the force handed to the device is zero.
TickManipulation ==
    /\ pcPhysics = "manipulation"
    /\ \E b \in BOOLEAN, w \in ToolPositions, hit \in Hits :
         LET r == Manipulation(m_controlMode, m_selectedObject, m_tool_T_object,
                               volumeTransform, deviceLocalForce, b, w, hit)
         IN  /\ Abs(r.volumeTransform) <= MaxVolumeMove * VoxelPitch
             /\ button' = b
             /\ m_controlMode' = ControlMode(m_controlMode, b)
             /\ m_selectedObject' = r.m_selectedObject
             /\ m_tool_T_object' = r.m_tool_T_object
             /\ volumeTransform' = r.volumeTransform
             /\ deviceLocalForce' = r.deviceLocalForce
    /\ pcPhysics' = "apply"
    /\ UNCHANGED <<tickState, m_burrRadius, sizeVars, latchVars, modeAtTick,
                   volumeAtTick, force>>

\* applyToDevice; the tick is over.
TickApply ==
    /\ pcPhysics = "apply"
    /\ pcPhysics' = "forces"
    /\ UNCHANGED <<tickState, m_burrRadius, sizeVars, latchVars, modeVars, forceVars>>

\* The drill size command of keyboardUpdate.
KeyChangeDrillSize ==
    /\ LET r == changeDrillSize(m_drillSizeIdx, tipRadius)
       IN  /\ m_drillSizeIdx' = r.m_drillSizeIdx
           /\ m_currDrillSize' = r.m_currDrillSize
           /\ tipRadius' = r.tipRadius
           /\ m_burrRadius' = r.m_burrRadius
    /\ UNCHANGED <<tickState, pcPhysics, latchVars, modeVars, forceVars>>

ControllerNext ==
    \/ TickForces
    \/ TickLatch
    \/ TickManipulation
    \/ TickApply
    \/ KeyChangeDrillSize

SpecController == ControllerInit /\ [][ControllerNext]_vars

\* ------------------------------- carving and manipulation in the same tick
\* physicsUpdate with its carving branch in steps and everything after it,
\* the manipulation block included, as the last step of the tick.
ManipInit ==
    /\ voxelColor = BoneVolume
    /\ m_burrRadius = InitRadius
    /\ proxyPos = Zero3
    /\ firstContact = Zero3
    /\ pcPhysics = "idle"
    /\ m_volumeUpdate = EmptyBox
    /\ CommonInit
    /\ ControlIdle

\* physicsUpdate from its start to the drain loop, the tip being the target.
ManipBegin ==
    /\ pcPhysics = "idle"
    /\ tick < MaxManipTicks
    /\ colorAtTick' = voxelColor
    /\ warningAtTick' = warningShown
    /\ CarveGate(m_targetToolCursorIdx, TickContacts)
    /\ UNCHANGED <<voxelColor, m_burrRadius, volIndex, m_targetToolCursorIdx,
                   m_targetToolCursor, sharedVars, graphicsVars, tick, historyVars>>
    /\ UNCHANGED controlVars

\* physicsUpdate after the carving branch: output force, latch, manipulation
\* block and applyToDevice.
ManipTail ==
    /\ pcPhysics = "finalize"
    /\ \E f \in ForceLevels, b \in BOOLEAN, w \in ToolPositions, hit \in Hits :
         LET l == Latch(m_flagStart, m_counter, f)
             r == Manipulation(m_controlMode, m_selectedObject, m_tool_T_object,
                               volumeTransform, f, b, w, hit)
         IN  /\ Abs(r.volumeTransform) <= MaxVolumeMove * VoxelPitch
             /\ force' = f
             /\ button' = b
             /\ zeroRun' = IF f = 0 THEN Min(zeroRun + 1, MaxZeroTicks + 1) ELSE 0
             /\ m_flagStart' = l.m_flagStart
             /\ m_counter' = l.m_counter
             /\ m_controlMode' = ControlMode(m_controlMode, b)
             /\ m_selectedObject' = r.m_selectedObject
             /\ m_tool_T_object' = r.m_tool_T_object
             /\ volumeTransform' = r.volumeTransform
             /\ deviceLocalForce' = r.deviceLocalForce
    /\ startedAtTick' = m_flagStart
    /\ modeAtTick' = m_controlMode
    /\ volumeAtTick' = volumeTransform
    /\ pcPhysics' = "idle"
    /\ tick' = tick + 1
    /\ UNCHANGED <<initVars, poseVars, arbiterVars, sizeVars>>
    /\ UNCHANGED <<voxelColor, inputVars, search, drainVars, m_targetToolCursorIdx,
                   m_targetToolCursor, warningShown, sharedVars, graphicsVars, carving,
                   colorAtTick, warningAtTick, historyVars>>

ManipNext ==
    \/ ManipBegin
    \/ DrainPop
    \/ PhysicsAcquire
    \/ PhysicsEnclose
    \/ PhysicsRelease
    \/ DrainDone
    \/ ManipTail

SpecManipulation == ManipInit /\ [][ManipNext]_vars

\* ------------------------------------------------- properties of the search
\* Contact status of a voxel taken from the geometry itself: the number of
\* cube corners of voxel v strictly inside the sphere.
CornersInside(v, center, radius) ==
    Cardinality({c \in {0, 1} \X {0, 1} \X {0, 1} :
        LengthSq(Sub3(center,
            <<(v[1] + c[1]) * voxelSize[1] + v000GlobalPos[1],
              (v[2] + c[2]) * voxelSize[2] + v000GlobalPos[2],
              (v[3] + c[3]) * voxelSize[3] + v000GlobalPos[3]>>)) < radius * radius})

InContact(v) ==
    LET n == CornersInside(v, proxyPos, m_burrRadius) IN n > 0 /\ n < 8

\* The voxel indices whose corners the search has tested.
TestedVoxels == {search.tested[i] : i \in 1 .. Len(search.tested)}

ListedVoxels == {search.listOfCollidingVoxels[i] : i \in 1 .. Len(search.listOfCollidingVoxels)}

Adjacent(u, w) == u # w /\ \A a \in 1 .. 3 : Abs(u[a] - w[a]) <= 1

\* The voxels linked to the first contact by a chain of 26-adjacent voxels in
\* contact, the first contact being a link whatever its own status.
RECURSIVE LinkedFrom(_)
LinkedFrom(L) ==
    LET more == {w \in Voxels \ L : InContact(w) /\ \E u \in L : Adjacent(u, w)}
    IN  IF more = {} THEN L ELSE LinkedFrom(L \cup more)

Linked == LinkedFrom({firstContact})

\* A measure of the work left: every voxel not yet in alreadyChecked can open
\* one frame, and every frame has its remaining neighbour iterations and its
\* return.
WorkLeft(s) ==
    LET RECURSIVE FrameWork(_)
        FrameWork(d) == IF d = 0 THEN 0 ELSE (28 - s.stack[d].n) + FrameWork(d - 1)
    IN  29 * (TexWidth * TexHeight * TexDepth - Cardinality(s.alreadyChecked))
          + FrameWork(Len(s.stack))

\* The guards of the steps of the search: one of them is enabled.
SearchCanStep ==
    \/ pcPhysics = "findIndex"
    \/ pcPhysics = "recursing" /\ search.stack = <<>>
    \/ pcPhysics = "recursing" /\ search.stack # <<>>
         /\ search.stack[Len(search.stack)].n \in 0 .. 27

\* C1: for every grid and every in-range first contact the search terminates
\* (it can always take its next step until it returns, and every step of the
\* recursion lowers a non-negative measure), tests the corners of each voxel
\* index at most once (the log of tests holds no index twice), and
\* alreadyChecked never holds more entries than the grid has voxels.
C1_SearchTerminates ==
    /\ [](/\ Cardinality(TestedVoxels) = Len(search.tested)
          /\ TestedVoxels = search.alreadyChecked
          /\ Cardinality(search.alreadyChecked) <= TexWidth * TexHeight * TexDepth
          /\ WorkLeft(search) >= 0
          /\ (pcPhysics # "found" => SearchCanStep))
    /\ [][pcPhysics = "recursing" /\ pcPhysics' = "recursing"
            => WorkLeft(search') < WorkLeft(search)]_vars

\* The search has ended after looking at every voxel of the grid.
C1_Witness ==
    /\ pcPhysics = "found"
    /\ search.alreadyChecked = Voxels

C4_ComponentComplete ==
    pcPhysics = "found" =>
        \A v \in Linked :
            (InContact(v) /\ voxelColor[v] # m_zeroColor) => v \in ListedVoxels

\* A finished search from a first contact that is not itself in contact and
\* reaches voxels in contact that are not its neighbours.
C4_Witness ==
    /\ pcPhysics = "found"
    /\ ~InContact(firstContact)
    /\ \E v \in ListedVoxels : v # firstContact /\ ~Adjacent(v, firstContact)

\* ------------------------------------------------ properties of the carving
\* The box around a set of voxel indices.
RECURSIVE EncloseAll(_, _)
EncloseAll(box, S) ==
    IF S = {} THEN box
    ELSE LET v == CHOOSE u \in S : TRUE
         IN  EncloseAll([m_min |-> <<Min(box.m_min[1], v[1]), Min(box.m_min[2], v[2]),
                                     Min(box.m_min[3], v[3])>>,
                         m_max |-> <<Max(box.m_max[1], v[1]), Max(box.m_max[2], v[2]),
                                     Max(box.m_max[3], v[3])>>], S \ {v})

BoundingBox(S) == EncloseAll(EmptyBox, S)

\* A voxel of the original colour class "Crit" went to EMPTY in the current tick.
CritRemovedThisTick ==
    \E v \in Voxels :
        /\ colorAtTick[v] # m_boneColor
        /\ colorAtTick[v] # m_zeroColor
        /\ voxelColor[v] = m_zeroColor

\* The physics task is not between clearing a voxel and enclosing its index.
NoEnclosePending == pcPhysics \notin {"acquire", "enclose"}

C5_CarveFrame ==
    carving =>
        \A v \in Voxels :
            /\ (v \notin ListedVoxels => voxelColor[v] = colorAtTick[v])
            /\ (pcPhysics = "finalize" /\ v \in ListedVoxels => voxelColor[v] = m_zeroColor)

\* The second tick has carved a list of several voxels with a "Crit" one among
\* them, next to voxels left alone, some of them EMPTY since the first tick.
C5_Witness ==
    /\ pcPhysics = "finalize" /\ carving /\ tick = 1
    /\ Cardinality(ListedVoxels) >= 2
    /\ \E v \in ListedVoxels : colorAtTick[v] = "Crit"
    /\ \E v \in Voxels \ ListedVoxels : voxelColor[v] = m_zeroColor
    /\ \E v \in Voxels \ ListedVoxels : voxelColor[v] = m_boneColor

\* C6: whenever no enclose is pending, the Dirty Region contains every voxel
\* index removed since the last setEmpty (since the start before the first
\* one); once a setEmpty has run it is exactly the bounding box of those
\* indices; and right after setEmpty it is empty.
C6_DirtyRegion ==
    /\ NoEnclosePending =>
         /\ \A v \in removedSinceClear :
              InRegion(v, m_volumeUpdate.m_min, m_volumeUpdate.m_max)
         /\ (clearedOnce => m_volumeUpdate = BoundingBox(removedSinceClear))
    /\ (pcGraphics = "release" =>
          IsEmptyRegion(m_volumeUpdate.m_min, m_volumeUpdate.m_max))

\* After a refresh cleared the region, two different voxels were removed and
\* enclosed.
C6_Witness ==
    /\ clearedOnce
    /\ NoEnclosePending
    /\ Cardinality(removedSinceClear) >= 2
    /\ m_volumeUpdate.m_min # m_volumeUpdate.m_max
    /\ ~IsEmptyRegion(m_volumeUpdate.m_min, m_volumeUpdate.m_max)

\* C7: no update is dropped.  When both tasks are between ticks and no refresh
\* is flagged, the render task will do nothing more until another voxel is
\* removed, so by then every removed voxel must have been in a region passed
\* to markForPartialUpdate.
C7_NoUpdateDropped ==
    (pcPhysics = "idle" /\ pcGraphics = "idle" /\ ~m_flagMarkVolumeForUpdate)
        => unrefreshed = {}

InGraphicsSection == pcGraphics \in {"readMin", "readMax", "setEmpty", "release"}
InPhysicsSection == pcPhysics \in {"enclose", "release"}

\* C8: the enclose of the physics task and the read-min/read-max/setEmpty of
\* the render task exclude each other, the snapshot of the render task is the
\* region it clears, and the lock is held nowhere else: not at
\* markForPartialUpdate and not at the end of a tick.
C8_MutualExclusion ==
    /\ ~(InGraphicsSection /\ InPhysicsSection)
    /\ (InPhysicsSection <=> m_mutexVoxel = "physics")
    /\ (InGraphicsSection <=> m_mutexVoxel = "graphics")
    /\ (pcGraphics \in {"readMax", "setEmpty"} => min = m_volumeUpdate.m_min)
    /\ (pcGraphics = "setEmpty" => max = m_volumeUpdate.m_max)
    /\ (pcGraphics \in {"mark", "clearFlag", "idle"} => m_mutexVoxel # "graphics")
    /\ (pcPhysics \in {"idle", "finalize"} => m_mutexVoxel # "physics")

\* The render task waits for the lock while an enclose is in progress.
C8_Witness ==
    /\ pcGraphics = "acquire"
    /\ pcPhysics = "enclose"
    /\ m_mutexVoxel = "physics"

\* C9: markForPartialUpdate is never invoked with an empty region.
C9_MarkedRegionNotEmpty ==
    pcGraphics = "mark" => ~IsEmptyRegion(min, max)

\* C10 as stated: at the end of every physics tick the warning is shown if a
\* protected voxel was removed in that tick and hidden otherwise.
C10_WarningPerTick ==
    pcPhysics = "finalize" => (warningShown <=> CritRemovedThisTick)

\* C10 amended: at the end of a physics tick the warning is shown if a
\* protected voxel was removed in that tick, hidden if the tick did not carve
\* (tip not in contact, or the target cursor is a shaft cursor), and otherwise
\* as it was when the tick began.
C10_WarningHeldWhileCarving ==
    pcPhysics = "finalize" =>
        (warningShown <=>
            IF CritRemovedThisTick THEN TRUE
            ELSE IF carving THEN warningAtTick
            ELSE FALSE)

\* A tick carved without removing a protected voxel and the warning raised by
\* the tick before is still shown.
C10_Witness ==
    /\ pcPhysics = "finalize"
    /\ carving
    /\ ~CritRemovedThisTick
    /\ warningAtTick
    /\ warningShown

\* ------------------------------------------------- properties of the tick
\* The target the arbiter holds before it looks at cursor i (i >= 1).
CandidateBefore(errs, i) == checkShaftCollision(SubSeq(errs, 1, i)).m_targetToolCursorIdx

\* C11: after checkShaftCollision the target is the one the errors of this
\* tick determine, whatever the target and the maximum of the tick before; a
\* shaft cursor is the target only if its error exceeds the error of the
\* lower-index candidate it replaced by more than the epsilon; and the tip is
\* the target when no shaft cursor exceeds the tip's error by more than the
\* epsilon.
C11_TieBreakLowerIndex ==
    pcPhysics = "drillPos" =>
        LET t == m_targetToolCursorIdx
        IN  /\ t = checkShaftCollision(proxyErr).m_targetToolCursorIdx
            /\ (t > 0 =>
                  proxyErr[t + 1] > proxyErr[CandidateBefore(proxyErr, t) + 1] + Epsilon)
            /\ ((\A i \in 2 .. Len(proxyErr) : proxyErr[i] <= proxyErr[1] + Epsilon)
                  => t = 0)

\* ------------------------------------------ properties of the controller
\* The size after the one given, in the cycle of the drill sizes, and the
\* radius that goes with a size.
SizeAfter(size) == CASE size = 2 -> 4 [] size = 4 -> 6 [] size = 6 -> 2
RadiusOfSize(size) ==
    CASE size = 2 -> Radius2mm [] size = 4 -> Radius4mm [] size = 6 -> Radius6mm

\* C12: the tip cursor radius equals the burr radius after init and after
\* every drill size command, and each command takes the drill size to the next
\* one of the cycle 2 -> 4 -> 6 -> 2 with the radius of that size.
C12_DrillSizeCycle ==
    /\ [](tipRadius = m_burrRadius /\ m_currDrillSize \in {2, 4, 6})
    /\ [][m_drillSizeIdx' # m_drillSizeIdx =>
            /\ m_currDrillSize' = SizeAfter(m_currDrillSize)
            /\ m_burrRadius' = RadiusOfSize(m_currDrillSize')]_vars

\* Three commands later the drill is back at 2 mm.
C12_Witness ==
    /\ m_currDrillSize = 2
    /\ m_drillSizeIdx = 0
    /\ tipRadius = Radius2mm
    /\ m_burrRadius = Radius2mm

\* C13: right after the volume reset command every voxel has its original
\* colour, the Dirty Region is empty and no refresh is flagged.
C13_ResetRestoresVolume ==
    "reset" \in stagesDone =>
        /\ voxelColor = originalColor
        /\ IsEmptyRegion(m_volumeUpdate.m_min, m_volumeUpdate.m_max)
        /\ ~m_flagMarkVolumeForUpdate

\* C14: init returns -1 when the number of tool cursors asked for is outside
\* 1..8, when the drill body is missing or when the volume is missing, and then
\* the corner table is not built, the tool cursors are not started and no tick
\* runs; it returns 1 only when the drill body and the volume were found.
C14_InitFailsWithoutEntities ==
    initResult # 0 =>
        /\ initResult \in {0 - 1, 1}
        /\ ((nt \notin 1 .. 8 \/ ~drillFound \/ ~volumeFound) =>
              /\ initResult = 0 - 1
              /\ ~cornersLoaded
              /\ ~cursorsStarted)
        /\ (initResult = 0 - 1 => pcPhysics = "failed" /\ tick = 0)
        /\ (initResult = 1 =>
              /\ drillFound /\ volumeFound
              /\ cornersLoaded /\ cursorsStarted
              /\ numToolCursors = nt)

\* init failed for the missing volume alone, after the burr was added to the
\* drill it found.
C14_Witness ==
    /\ initResult = 0 - 1
    /\ ~optInfo
    /\ nt = 8
    /\ drillFound
    /\ ~volumeFound
    /\ m_burrRadius = InitRadius

\* C15: in a tick in which the device is unavailable at both of its tests, the
\* drill's transform stays what it was when the tick began, through the end of
\* the tick, and the commanded pose T_d is that held transform.
C15_HoldsWithoutDevice ==
    (/\ pcPhysics \in {"gate", "drain", "acquire", "enclose", "release", "finalize"}
     /\ deviceAvailable = <<FALSE, FALSE>>)
        => /\ drillTransform = heldTransform
           /\ T_d = heldTransform

\* The second tick ran to its end without the device and took the commanded
\* pose back to where the proxy had left the drill in the first tick.
C15_Witness ==
    /\ pcPhysics = "finalize"
    /\ tick = 1
    /\ deviceAvailable = <<FALSE, FALSE>>
    /\ heldTransform.pos < 0
    /\ T_d = heldTransform

\* C16: the latch goes from started to not started only in a tick that ends a
\* run of more than 10 consecutive zero-force ticks, also after it has left and
\* re-entered the started state; and a nonzero force seen while started puts
\* the count back to zero.
C16_LeavesAfterZeroRun ==
    pcPhysics = "manipulation" =>
        /\ (startedAtTick /\ ~m_flagStart => zeroRun > MaxZeroTicks)
        /\ (startedAtTick /\ force # 0 => m_counter = 0 /\ m_flagStart)

\* C17: the manipulation mode is idle or selecting, and at the end of a tick it
\* is selecting if the switch was pressed in that tick and idle if it was
\* released, whatever it was when the tick began.
C17_ModeFollowsSwitch ==
    /\ m_controlMode \in {"HAPTIC_IDLE", "HAPTIC_SELECTION"}
    /\ (pcPhysics = "apply" =>
          m_controlMode = IF button THEN "HAPTIC_SELECTION" ELSE "HAPTIC_IDLE")

\* A tick that began selecting ended idle because the switch was released.
C17_Witness ==
    /\ pcPhysics = "apply"
    /\ modeAtTick = "HAPTIC_SELECTION"
    /\ ~button
    /\ m_controlMode = "HAPTIC_IDLE"

\* The positions of the tick at which voxels are being removed and the dirty
\* region marked.
Removing == pcPhysics \in {"drain", "acquire", "enclose", "release"}

\* The positions of the tick from the contact test on.
PastDrillPos == Removing \/ pcPhysics \in {"gate", "finalize"}

\* C18 (as stated): the arbiter has run before the search, the search is over
\* before a voxel is removed, and the drill's visible transform is not updated
\* before the voxels are removed and the dirty region marked.
C18_PoseUpdateAfterRemoval ==
    /\ (PastDrillPos => "arbiter" \in stagesDone)
    /\ (Removing => "drillPose" \notin stagesDone)

\* C18 (amended): the arbiter runs first; the drill's visible transform is
\* updated next, before the contact test, in the ticks whose second reading of
\* the device finds it available; the search is over before a voxel is
\* removed, and every removed voxel is one the search listed.
C18_PoseUpdateBeforeSearch ==
    /\ [](PastDrillPos =>
            /\ "arbiter" \in stagesDone
            /\ ("drillPose" \in stagesDone <=> deviceAvailable[2]))
    /\ [][(Removing /\ voxelColor' # voxelColor) =>
            /\ search' = search
            /\ stagesDone' = stagesDone
            /\ \E i \in 1 .. Len(search.listOfCollidingVoxels) :
                 /\ search.listOfCollidingVoxels[i] = volIndex'
                 /\ voxelColor' = setVoxelColor(voxelColor, volIndex', m_zeroColor)]_vars

\* A voxel has been removed in a tick whose arbiter chose the tip and whose
\* drill pose update had already moved the drill.
C18_Witness ==
    /\ pcPhysics = "acquire"
    /\ stagesDone = {"arbiter", "drillPose"}
    /\ drillTransform # heldTransform
    /\ voxelColor # colorAtTick

\* The frames of the recursion in progress.
Frames == {search.stack[d] : d \in 1 .. Len(search.stack)}

FarCorner == <<TexWidth - 1, TexHeight - 1, TexDepth - 1>>

\* C19: from a first contact inside the grid, every voxel index the recursion
\* is called with, tests, reads the colour of or looks up in the corner table
\* lies inside the grid on each axis, its corner slots lie inside the corner
\* table, and no call is made from a voxel to itself.
C19_IndicesInRange ==
    /\ TestedVoxels \subseteq Voxels
    /\ \A v \in TestedVoxels :
         /\ v \in DOMAIN voxelColor
         /\ \A cor \in 0 .. 7 : CornerSlot(v, cor) \in DOMAIN voxelCorners
    /\ \A f \in Frames : f.idx \in Voxels
    /\ (search.call # <<>> =>
          /\ \A a \in 1 .. 3 : 0 <= search.call[2][a] /\ search.call[2][a] < texSize[a]
          /\ search.call[2] # search.call[1]
          /\ Adjacent(search.call[1], search.call[2]))

\* The voxels at both ends of the grid have gone through their neighbour loops:
\* the loop of the far corner is over and the voxel at the origin was tested.
C19_Witness ==
    /\ pcPhysics = "recursing"
    /\ search.stack # <<>>
    /\ search.stack[Len(search.stack)] = [idx |-> FarCorner, n |-> 27]
    /\ Zero3 \in TestedVoxels
    /\ search.call = <<>>

\* The in-range neighbours of v reached by the offsets before the n-th.
NeighboursBefore(v, n) ==
    {Add3(v, Offset(k)) : k \in {j \in 0 .. n - 1 :
        Offset(j) # Zero3 /\ Add3(v, Offset(j)) \in Voxels}}

\* C20: the first contact is the first voxel tested and always opens its
\* neighbour loop; any other voxel opens its neighbour loop when it is tested if
\* and only if it is in contact, whatever its colour; an open loop has called
\* every in-range neighbour its offsets have passed, and when the search
\* returns every in-range neighbour of each voxel that opened a loop was
\* looked at.
C20_ExpandsIffContactOrSeed ==
    /\ [](/\ (search.tested # <<>> => search.tested[1] = firstContact)
          /\ \A f \in Frames : NeighboursBefore(f.idx, f.n) \subseteq search.alreadyChecked
          /\ (pcPhysics = "found" =>
                \A v \in TestedVoxels : (v = firstContact \/ InContact(v)) =>
                    \A w \in Voxels : Adjacent(v, w) => w \in search.alreadyChecked))
    /\ [][Len(search'.tested) = Len(search.tested) + 1 =>
            LET v == search'.tested[Len(search'.tested)]
                d == Len(search'.stack)
            IN  (/\ d = Len(search.stack) + 1
                 /\ search'.stack[d] = [idx |-> v, n |-> 0])
                  <=> (v = firstContact \/ InContact(v))]_vars

\* A finished search whose first contact is not in contact and still reached
\* other voxels, among them an EMPTY voxel in contact whose neighbours were
\* looked at and a voxel not in contact.
C20_Witness ==
    /\ pcPhysics = "found"
    /\ ~InContact(firstContact)
    /\ \E v \in TestedVoxels \ {firstContact} :
         /\ InContact(v)
         /\ voxelColor[v] = m_zeroColor
         /\ \A w \in Voxels : Adjacent(v, w) => w \in TestedVoxels
    /\ \E u \in TestedVoxels \ {firstContact} : ~InContact(u)

\* ------------------------------------------ properties of the carving tick
\* A voxel of the contact list held a protected colour when the tick began,
\* which is the colour the drain loop read from it the first time.
ProtectedDrained ==
    \E v \in ListedVoxels : colorAtTick[v] # m_boneColor /\ colorAtTick[v] # m_zeroColor

\* C21 (as stated): at the end of a carving tick the critical-region flag is
\* raised exactly when a drained voxel held a protected colour when read, and
\* after a tick that drained no protected voxel the flag is down and no
\* warning is shown.
C21_FlagIffProtectedNoWarning ==
    (pcPhysics = "finalize" /\ carving) =>
        /\ (critialRegionFlag <=> ProtectedDrained)
        /\ (~ProtectedDrained => ~critialRegionFlag /\ ~warningShown)

\* C21 (amended): the flag is raised exactly when a drained voxel held a
\* protected colour when read; a carving tick that drained no protected voxel
\* raises no flag and leaves the warning as it was when the tick began.
C21_FlagIffProtectedWarningKept ==
    (pcPhysics = "finalize" /\ carving) =>
        /\ (critialRegionFlag <=> ProtectedDrained)
        /\ (~ProtectedDrained => ~critialRegionFlag /\ warningShown = warningAtTick)
        /\ (ProtectedDrained => warningShown)

\* A carving tick drained bone voxels only, one of them twice (the second time
\* it read EMPTY), raised no flag, and the warning of the tick before is shown.
C21_Witness ==
    /\ pcPhysics = "finalize"
    /\ carving
    /\ ListedVoxels # {}
    /\ \A v \in ListedVoxels : colorAtTick[v] = m_boneColor
    /\ \E v \in ListedVoxels : published[v] >= 2
    /\ ~critialRegionFlag
    /\ warningShown

\* C22: after checkShaftCollision no cursor's proxy/goal error exceeds
\* m_maxError, nor the error of the selected cursor, by more than epsilon, and
\* m_targetToolCursor is the cursor at m_targetToolCursorIdx.
C22_TargetHasMaxError ==
    pcPhysics = "drillPos" =>
        /\ m_targetToolCursorIdx \in 0 .. Len(proxyErr) - 1
        /\ m_targetToolCursor = m_targetToolCursorIdx
        /\ \A i \in 1 .. Len(proxyErr) :
             /\ proxyErr[i] <= m_maxError + Epsilon
             /\ proxyErr[i] <= proxyErr[m_targetToolCursorIdx + 1] + Epsilon

\* The arbiter selected a shaft cursor whose error is above the tip's nonzero
\* error.
C22_Witness ==
    /\ pcPhysics = "drillPos"
    /\ Len(proxyErr) = NumCursors
    /\ proxyErr[1] = Epsilon
    /\ m_targetToolCursor = NumCursors - 1
    /\ m_maxError = 2 * Epsilon
    /\ proxyErr[NumCursors] = m_maxError

\* Local proxy position of the cursor at place i of the list in this tick.
ProxyOf(i) == T_d.pos + i * m_dX - proxyErr[i + 1]

\* C23: after drillPosUpdate, with the tip the target the drill is at the tip's
\* proxy position; with shaft cursor k the target and its error within the
\* tolerance the drill is at that cursor's proxy position moved back by k
\* pitches, reached at once or approached by 4/100 of the way according to
\* the toggle; with its error past the tolerance the drill transform is the
\* one the tick began with.
C23_DrillPosByCase ==
    (pcPhysics = "gate" /\ "drillPose" \in stagesDone) =>
        LET k == m_targetToolCursorIdx
            back == ProxyOf(k) - k * m_dX
        IN  /\ (k = 0 => drillTransform = Transform(ProxyOf(0), T_d.rot))
            /\ (k > 0 /\ proxyErr[k + 1] <= PosTolerance =>
                  /\ drillTransform.rot = T_d.rot
                  /\ (~m_suddenJump => drillTransform.pos = back)
                  /\ (m_suddenJump =>
                        drillTransform.pos =
                            heldTransform.pos + ((back - heldTransform.pos) * 4) \div 100))
            /\ (k > 0 /\ proxyErr[k + 1] > PosTolerance => drillTransform = heldTransform)

\* The target is a shaft cursor whose error is past the tolerance, and the
\* drill stayed where it was, away from where that cursor would have put it.
C23_Witness ==
    /\ pcPhysics = "gate"
    /\ "drillPose" \in stagesDone
    /\ m_targetToolCursorIdx > 0
    /\ proxyErr[m_targetToolCursorIdx + 1] > PosTolerance
    /\ drillTransform = heldTransform
    /\ drillTransform.pos # ProxyOf(m_targetToolCursorIdx) - m_targetToolCursorIdx * m_dX
    /\ drillTransform.rot # T_d.rot

\* C25: in a tick that finds the latch not started, the latch becomes started
\* exactly when the length of the force of that tick is greater than 10, and
\* the tick counter is left as it was, so a nonzero force of length at most 10
\* changes neither.
C25_RestartsOnlyAboveThreshold ==
    [][(pcPhysics = "latch" /\ pcPhysics' = "manipulation" /\ ~m_flagStart) =>
          /\ (m_flagStart' <=> force > StartForce)
          /\ m_counter' = m_counter]_vars

\* A tick with a nonzero force of length 10 found the latch not started and
\* left it so.
C25_Witness ==
    /\ pcPhysics = "manipulation"
    /\ ~startedAtTick
    /\ force = StartForce
    /\ ~m_flagStart
    /\ m_counter > MaxZeroTicks

\* C29: at the end of a tick that began selecting with the switch held, the
\* force handed to the device is zero and the volume has moved only if the
\* held object is the voxel volume; at the end of a tick that ends idle the
\* volume is where it was when the tick began.
C29_HeldObjectMovesZeroForce ==
    pcPhysics = "apply" =>
        /\ (modeAtTick = "HAPTIC_SELECTION" /\ button =>
              /\ deviceLocalForce = 0
              /\ (volumeTransform # volumeAtTick => m_selectedObject = "voxelObj"))
        /\ (m_controlMode = "HAPTIC_IDLE" => volumeTransform = volumeAtTick)

\* A tick that began selecting with the switch held and a nonzero output force:
\* the held volume has moved and the device gets a zero force.
C29_Witness ==
    /\ pcPhysics = "apply"
    /\ modeAtTick = "HAPTIC_SELECTION"
    /\ button
    /\ force > 0
    /\ deviceLocalForce = 0
    /\ m_selectedObject = "voxelObj"
    /\ volumeTransform # volumeAtTick

\* Corner (x,y,z) of voxel v for the volume at place volume along the X axis.
CornerAt(volume, v, x, y, z) ==
    Add3(CornerGlobal(v, x, y, z), <<volume - voxelObjPos[1], 0, 0>>)

\* C24: while the carving branch of a tick runs, the corner table entries of
\* the voxels its search tested are the corners derived from the place the
\* volume has in that tick.
C24_TableFollowsVolume ==
    (carving /\ pcPhysics \in {"drain", "acquire", "enclose", "release", "finalize"}) =>
        \A v \in TestedVoxels : \A x \in {0, 1}, y \in {0, 1}, z \in {0, 1} :
            voxelCorners[CornerSlot(v, 4 * x + 2 * y + z)]
                = CornerAt(volumeTransform, v, x, y, z)

\* The positions of the tick outside the carving branch.
OutsideCarving == pcPhysics \in {"idle", "toolCursors", "drillPos", "gate", "finalize"}

\* C26: a tick whose target is a shaft cursor never enters the carving branch;
\* a tick that does not enter it (the tip is not in contact, or the target is
\* a shaft cursor) ends with every voxel colour as it was and the warning
\* hidden, and none of its steps reports a voxel, touches the Dirty Region or
\* the pending-refresh flag.
C26_NoCarvingWithoutTip ==
    /\ []((pcPhysics = "finalize" /\ ~carving) =>
            voxelColor = colorAtTick /\ ~warningShown)
    /\ [][(pcPhysics = "gate" /\ m_targetToolCursorIdx # 0) =>
            ~carving' /\ pcPhysics' = "finalize"]_vars
    /\ [][(OutsideCarving /\ pcPhysics' # pcPhysics /\ pcPhysics' # "drain") =>
            UNCHANGED <<voxelColor, published, m_volumeUpdate,
                        m_flagMarkVolumeForUpdate>>]_vars

\* A tick whose target was a shaft cursor has ended without carving: the
\* warning raised by the tick before is hidden, and the region and the flag
\* that tick left are still there.
C26_Witness ==
    /\ pcPhysics = "finalize"
    /\ ~carving
    /\ m_targetToolCursorIdx # 0
    /\ warningAtTick
    /\ ~warningShown
    /\ m_flagMarkVolumeForUpdate
    /\ ~IsEmptyRegion(m_volumeUpdate.m_min, m_volumeUpdate.m_max)

\* C27: without a reset the texture keeps its dimensions, a voxel changes
\* colour only by becoming EMPTY, and an EMPTY voxel stays EMPTY, whatever the
\* two tasks do.
C27_CarvingMonotonic ==
    /\ [](DOMAIN voxelColor = Voxels)
    /\ [][\A v \in Voxels :
            /\ (voxelColor'[v] # voxelColor[v] => voxelColor'[v] = m_zeroColor)
            /\ (voxelColor[v] = m_zeroColor => voxelColor'[v] = m_zeroColor)]_vars

\* The second tick has drained again a voxel that the first tick had made
\* EMPTY, and has made another voxel EMPTY.
C27_Witness ==
    /\ pcPhysics = "finalize"
    /\ carving
    /\ tick = 1
    /\ \E v \in ListedVoxels :
         colorAtTick[v] = m_zeroColor /\ voxelColor[v] = m_zeroColor /\ published[v] >= 2
    /\ \E u \in ListedVoxels : colorAtTick[u] # m_zeroColor /\ voxelColor[u] = m_zeroColor

\* C28: whenever the drill size is 2 mm, at the start or after a full cycle of
\* three changeDrillSize commands, the tip radius and the burr radius are the
\* ones init gave them for 2 mm.
C28_CycleRestoresInitRadius ==
    m_currDrillSize = 2 => tipRadius = InitRadius /\ m_burrRadius = InitRadius

\* C30: with valid options and the drill and the volume in the world, init on
\* a texture with no texel along some axis prints the warning, returns 1 and
\* has built a corner table with no entries.
C30_EmptyTextureNotFatal ==
    (/\ pcPhysics # "uninit"
     /\ ZeroSized(imageSize)
     /\ ~optInfo /\ nt > 0 /\ nt <= MaxToolCursors
     /\ drillFound /\ volumeFound) =>
        /\ initResult = 1
        /\ textureWarning
        /\ cornersLoaded
        /\ numCorners = 0

\* init has returned 1 on a texture of width 0, after the warning.
C30_Witness ==
    /\ pcPhysics = "idle"
    /\ imageSize[1] = 0
    /\ imageSize[2] > 0
    /\ initResult = 1
    /\ textureWarning
    /\ numCorners = 0
    /\ numToolCursors = nt

\* The (voxel, corner) pairs of the grid and the slots the loading loop writes.
CornerKeys == Voxels \X ({0, 1} \X {0, 1} \X {0, 1})
WrittenSlots == {CornerWriteSlot(p[1], p[2][1], p[2][2], p[2][3]) : p \in CornerKeys}

\* The write index maps the pairs one to one onto the slots of the table.
CornerIndexIsBijection ==
    /\ DOMAIN voxelCorners = 0 .. (TexWidth * TexHeight * TexDepth * 8 - 1)
    /\ WrittenSlots = DOMAIN voxelCorners
    /\ Cardinality(WrittenSlots) = Cardinality(CornerKeys)

\* C31: the flattened index is a bijection from the (voxel, corner) pairs onto
\* the slots of the allocated table, and for every voxel the search tests and
\* every corner, the slot the collision test reads is inside the table, is the
\* slot written for that voxel and corner, and holds that corner.
C31_CornerIndexBijection ==
    /\ CornerIndexIsBijection
    /\ \A v \in TestedVoxels : \A x \in {0, 1}, y \in {0, 1}, z \in {0, 1} :
         LET slot == CornerSlot(v, 4 * x + 2 * y + z)
         IN  /\ slot \in DOMAIN voxelCorners
             /\ slot = CornerWriteSlot(v, x, y, z)
             /\ voxelCorners[slot] = CornerGlobal(v, x, y, z)

\* A finished search has read the first and the last slot of the table.
C31_Witness ==
    /\ pcPhysics = "found"
    /\ Zero3 \in TestedVoxels
    /\ FarCorner \in TestedVoxels
    /\ CornerSlot(Zero3, 0) = 0
    /\ CornerSlot(FarCorner, 7) = TexWidth * TexHeight * TexDepth * 8 - 1
    /\ voxelCorners[CornerSlot(FarCorner, 7)] = CornerGlobal(FarCorner, 1, 1, 1)

====
